---- MODULE Spec2Model ----
(***************************************************************************)
(* Model of the 2020runner remediation driver (src/main.go).               *)
(*                                                                         *)
(* src/main.go holds three revisions of the same program, each a complete  *)
(* `package main`:                                                         *)
(*   "v1"  lines   1-224  catalog state is an enum, network detection by   *)
(*                        LastDiscLocation, CleanCatalog after uninstall   *)
(*   "v2"  lines 226-380  catalog phase only, (installed, onNetwork) pair  *)
(*   "v3"  lines 382-600  software phase + catalog phase, pair             *)
(* A behaviour of the model is one run of one revision's main().           *)
(* Strings that the program compares character by character are modelled  *)
(* as sequences of one-character strings.                                  *)
(***************************************************************************)
EXTENDS Integers, Sequences, FiniteSets, TLC

VARIABLES
    variant,        \* which revision's main() is running
    pc,             \* position of main()
    exitCode,       \* argument of os.Exit, -1 while running
    cookie,         \* C:\ProgramData\2020\DSA\2020Catalogs-StateCookie.xml
    softKey,        \* the product's registry key as GetSoftwareStatus found it
    softInstalled,  \* main's softInstalled
    softCurrent,    \* main's softCurrent
    catState,       \* main's catState (v1)
    catInstalled,   \* main's catInstalled / isInstalled (v2, v3)
    catOnNetwork,   \* main's catOnNetwork / isOnNetwork (v2, v3)
    err,            \* main's err
    v,              \* UninstallCatalog's v (the UninstallString read)
    log             \* history: calls made and external commands launched

vars == << variant, pc, exitCode, cookie, softKey, softInstalled, softCurrent,
           catState, catInstalled, catOnNetwork, err, v, log >>

(***************************************************************************)
(* Bounds                                                                  *)
(***************************************************************************)
MaxPicks == 2       \* longest GranulePicks list in a state cookie

(***************************************************************************)
(* Program constants                                                       *)
(***************************************************************************)
Variants == {"v1", "v2", "v3"}

CAP2020_SOFTWARE_CURRENT == "13.00.13037"

CATALOG_STATE_MISSNG == 0
CATALOG_STATE_LOCAL == 1
CATALOG_STATE_NETWORK == 2
CATALOG_STATE_INVALID == 3

\* C:\Program Files (x86)\2020\DSA\dsa.exe /removeall /rootpath "C:\ProgramData\2020\DSA"
ExpectedUninstallString == <<
   "C",":","\\","P","r","o","g","r","a","m"," ","F","i","l","e","s"," ","(",
   "x","8","6",")","\\","2","0","2","0","\\","D","S","A","\\","d","s","a",
   ".","e","x","e"," ","/","r","e","m","o","v","e","a","l","l"," ","/","r",
   "o","o","t","p","a","t","h"," ","\"","C",":","\\","P","r","o","g","r",
   "a","m","D","a","t","a","\\","2","0","2","0","\\","D","S","A","\"" >>

\* \\10.0.9.29\2020catalogbeta\ClientSetup\
ExpectedLastDiscLocation == <<
   "\\","\\","1","0",".","0",".","9",".","2","9","\\","2","0","2","0","c",
   "a","t","a","l","o","g","b","e","t","a","\\","C","l","i","e","n","t","S",
   "e","t","u","p","\\" >>

nil == "nil"

\* os.ErrNotExist is a sentinel value; os.Open reports failures as *PathError
os_ErrNotExist == "ErrNotExist"
\* registry.ErrNotExist is syscall.ERROR_FILE_NOT_FOUND, returned as is by OpenKey
registry_ErrNotExist == "ERROR_FILE_NOT_FOUND"

(***************************************************************************)
(* strings.EqualFold and strings built for the inputs                      *)
(***************************************************************************)
UpperLetters == << "A","B","C","D","E","F","G","H","I","J","K","L","M",
                   "N","O","P","Q","R","S","T","U","V","W","X","Y","Z" >>
LowerLetters == << "a","b","c","d","e","f","g","h","i","j","k","l","m",
                   "n","o","p","q","r","s","t","u","v","w","x","y","z" >>

\* the lower-case letter of each upper-case letter, and the reverse
LowerOf ==
    [c \in { UpperLetters[i] : i \in 1..Len(UpperLetters) } |->
        LowerLetters[CHOOSE i \in 1..Len(UpperLetters) : UpperLetters[i] = c]]
UpperOf ==
    [c \in { LowerLetters[i] : i \in 1..Len(LowerLetters) } |->
        UpperLetters[CHOOSE i \in 1..Len(LowerLetters) : LowerLetters[i] = c]]

\* the representative of a character's case-folding class
Fold(c) == IF c \in DOMAIN LowerOf THEN LowerOf[c] ELSE c

ToUpperChar(c) == IF c \in DOMAIN UpperOf THEN UpperOf[c] ELSE c

ToUpper(s) == [i \in 1..Len(s) |-> ToUpperChar(s[i])]

EqualFold(s, t) ==
    /\ Len(s) = Len(t)
    /\ \A i \in 1..Len(s) : Fold(s[i]) = Fold(t[i])

(***************************************************************************)
(* The state cookie file                                                   *)
(***************************************************************************)
PlatformTypes == {"CAP", "IDA"}
MfgCodes == {"DMO", "HMI"}
SelectionStates == {"Selected", "NotSelected"}

\* granule picks used in the cookies: the baseline pick and one pick
\* differing from it in each single attribute
PickValues ==
    { p \in [PlatformType : PlatformTypes, MfgCode : MfgCodes,
             SelectionState : SelectionStates] :
        Cardinality({ a \in {"P", "M", "S"} :
            \/ a = "P" /\ p.PlatformType # "CAP"
            \/ a = "M" /\ p.MfgCode # "DMO"
            \/ a = "S" /\ p.SelectionState # "Selected" }) <= 1 }

PickLists == UNION { [1..n -> PickValues] : n \in 0..MaxPicks }

LocalDiscLocation == << "D", ":", "\\" >>

DiscLocations ==
    { ExpectedLastDiscLocation, ToUpper(ExpectedLastDiscLocation),
      LocalDiscLocation }

\* a file that is missing, unreadable or not XML has no content
NoContent(f) ==
    [file |-> f, UsingNetwork |-> FALSE, GranulePicks |-> << >>,
     LastDiscLocation |-> << >>]

ParsedCookies ==
    [file : {"parsed"}, UsingNetwork : BOOLEAN, GranulePicks : PickLists,
     LastDiscLocation : DiscLocations]

CookieFiles ==
    { NoContent("absent"), NoContent("denied"), NoContent("malformed") }
        \cup ParsedCookies

\* os.Open(`...StateCookie.xml`): the error returned
os_Open(c) ==
    CASE c.file = "absent" -> "PathError:ENOENT"
      [] c.file = "denied" -> "PathError:EACCES"
      [] OTHER -> nil

\* dec.Decode(&catalogstate): the error returned
Decode(c) == IF c.file = "malformed" THEN "XML syntax error" ELSE nil

\* BaselinePickSelected without the test of SelectionState
BaselinePickSelected_AnyState(picks) ==
    \E j \in 1..Len(picks) :
        /\ picks[j].MfgCode = "DMO"
        /\ picks[j].PlatformType = "CAP"

\* the loop over catalogstate.GranulePicks
BaselinePickSelected(picks) ==
    \E j \in 1..Len(picks) :
        /\ picks[j].MfgCode = "DMO"
        /\ picks[j].PlatformType = "CAP"
        /\ picks[j].SelectionState = "Selected"

(***************************************************************************)
(* Classification functions                                                *)
(***************************************************************************)
\* GetCatalogStatusEnum going on with an empty catalogstate when Decode fails
GetCatalogStatusEnum_NoDecodeCheck(c) ==
    IF os_Open(c) # nil
    THEN [catState |-> CATALOG_STATE_MISSNG, err |-> nil]
    ELSE IF BaselinePickSelected(c.GranulePicks)
    THEN [catState |-> CATALOG_STATE_LOCAL, err |-> nil]
    ELSE IF ~EqualFold(c.LastDiscLocation, ExpectedLastDiscLocation)
    THEN [catState |-> CATALOG_STATE_INVALID, err |-> nil]
    ELSE [catState |-> CATALOG_STATE_NETWORK, err |-> nil]

\* v1: func GetCatalogStatus() (int, error)
GetCatalogStatusEnum(c) ==
    IF os_Open(c) # nil
    THEN [catState |-> CATALOG_STATE_MISSNG, err |-> nil]
    ELSE IF Decode(c) # nil
    THEN [catState |-> CATALOG_STATE_INVALID,
          err |-> "Cannot decode DSA state XML file"]
    ELSE IF BaselinePickSelected(c.GranulePicks)
    THEN [catState |-> CATALOG_STATE_LOCAL, err |-> nil]
    ELSE IF ~EqualFold(c.LastDiscLocation, ExpectedLastDiscLocation)
    THEN [catState |-> CATALOG_STATE_INVALID, err |-> nil]
    ELSE [catState |-> CATALOG_STATE_NETWORK, err |-> nil]

\* v2, v3: func GetCatalogStatus() (bool, bool, error)
GetCatalogStatusPair(c) ==
    IF os_Open(c) = os_ErrNotExist
    THEN [installed |-> FALSE, onNetwork |-> FALSE, err |-> nil]
    ELSE IF os_Open(c) # nil
    THEN [installed |-> FALSE, onNetwork |-> FALSE,
          err |-> "Cannot open DSA state XML file"]
    ELSE IF Decode(c) # nil
    THEN [installed |-> FALSE, onNetwork |-> FALSE,
          err |-> "Cannot decode DSA state XML file"]
    ELSE IF BaselinePickSelected(c.GranulePicks)
    THEN [installed |-> TRUE, onNetwork |-> c.UsingNetwork, err |-> nil]
    ELSE [installed |-> FALSE, onNetwork |-> c.UsingNetwork, err |-> nil]

\* outcomes of registry.OpenKey
OpenKeyErrors == {nil, registry_ErrNotExist, "ERROR_ACCESS_DENIED"}

\* values k.GetStringValue("DisplayVersion") can read
DisplayVersions == {CAP2020_SOFTWARE_CURRENT, "13.00.13036", "13.00.13037 "}
\* outcomes of k.GetStringValue other than a value
GetStringValueErrors == {nil, "ERROR_FILE_NOT_FOUND", "ErrUnexpectedType"}

\* GetSoftwareStatus taking every failure to open the key for "not installed"
GetSoftwareStatus_AnyOpenErr(openErr, valErr, value) ==
    IF openErr # nil
    THEN [installed |-> FALSE, current |-> FALSE, err |-> nil]
    ELSE IF valErr # nil
    THEN [installed |-> FALSE, current |-> FALSE,
          err |-> "Cannot read value DisplayVersion"]
    ELSE [installed |-> TRUE, current |-> (value = CAP2020_SOFTWARE_CURRENT),
          err |-> nil]

\* func GetSoftwareStatus() (bool, bool, error); openErr is what OpenKey
\* returns, valErr and value what GetStringValue returns
GetSoftwareStatus(openErr, valErr, value) ==
    IF openErr = registry_ErrNotExist
    THEN [installed |-> FALSE, current |-> FALSE, err |-> nil]
    ELSE IF openErr # nil
    THEN [installed |-> FALSE, current |-> FALSE,
          err |-> "Cannot open registry key for software version"]
    ELSE IF valErr # nil
    THEN [installed |-> FALSE, current |-> FALSE,
          err |-> "Cannot read value DisplayVersion"]
    ELSE [installed |-> TRUE, current |-> (value = CAP2020_SOFTWARE_CURRENT),
          err |-> nil]

\* the states the product's registry key can be found in: it cannot be
\* opened, DisplayVersion cannot be read, or DisplayVersion has a value
SoftwareKeys ==
    { [openErr |-> e, valErr |-> nil, value |-> ""] :
          e \in OpenKeyErrors \ {nil} }
    \cup { [openErr |-> nil, valErr |-> e, value |-> ""] :
          e \in GetStringValueErrors \ {nil} }
    \cup { [openErr |-> nil, valErr |-> nil, value |-> d] :
          d \in DisplayVersions }

\* softKey before GetSoftwareStatus has run
NotRead == [openErr |-> "not read", valErr |-> nil, value |-> ""]

(***************************************************************************)
(* History: one record per call made by main and per command launched      *)
(***************************************************************************)
Classify(op, e) == [kind |-> "classify", op |-> op, failed |-> (e # nil)]
Action(op, e) == [kind |-> "action", op |-> op, failed |-> (e # nil)]
Exec(op, e) == [kind |-> "exec", op |-> op, failed |-> (e # nil)]
Clean(op, e) == [kind |-> "clean", op |-> op, failed |-> (e # nil)]

\* outcomes of exec.Command(...).CombinedOutput() / .Run()
CommandErrors == {nil, "exit status 1"}

(***************************************************************************)
(* Remediation actions. Each returns the error returned to main, the       *)
(* commands it launched and whether an installer-type command ran.         *)
(***************************************************************************)
UninstallStrings ==
    { ExpectedUninstallString, ToUpper(ExpectedUninstallString),
      Append(ExpectedUninstallString, " "),
      << "c", "m", "d", ".", "e", "x", "e" >> }

\* strings.EqualFold(v, `...`) for each value the registry can hold
UninstallStringFolds ==
    [u \in UninstallStrings |-> EqualFold(u, ExpectedUninstallString)]

\* the check of v against the recognized uninstall command
UninstallStringRecognized(var, value) ==
    IF var = "v1"
    THEN UninstallStringFolds[value]
    ELSE value = ExpectedUninstallString

\* func UninstallCatalog() error
UninstallCatalog(var, openErr, valErr, value, cmdErr) ==
    IF openErr # nil
    THEN [err |-> "Cannot open registry key for uninstall", v |-> << >>,
          execs |-> << >>]
    ELSE IF valErr # nil
    THEN [err |-> "Cannot read value UninstallString", v |-> << >>,
          execs |-> << >>]
    ELSE IF ~UninstallStringRecognized(var, value)
    THEN [err |-> "UninstallString had an unexpected value", v |-> value,
          execs |-> << >>]
    ELSE IF cmdErr # nil
    THEN [err |-> "Uninstall command output", v |-> value,
          execs |-> << Exec("dsa.exe /removeall", cmdErr) >>]
    ELSE [err |-> nil, v |-> value,
          execs |-> << Exec("dsa.exe /removeall", cmdErr) >>]

\* func InstallSoftware() error
InstallSoftware(cmdErr) ==
    IF cmdErr # nil
    THEN [err |-> "Install command output",
          execs |-> << Exec("software Setup.exe", cmdErr) >>]
    ELSE [err |-> nil, execs |-> << Exec("software Setup.exe", cmdErr) >>]

\* func UninstallSoftware() error
UninstallSoftware(cmdErr) ==
    IF cmdErr # nil
    THEN [err |-> "Uninstall command output",
          execs |-> << Exec("msiexec /x", cmdErr) >>]
    ELSE [err |-> nil, execs |-> << Exec("msiexec /x", cmdErr) >>]

\* func InstallNetworkCatalog() error; v1 runs the setup from the share,
\* v2 and v3 map drive A: first
InstallNetworkCatalog(var, deleteErr, useErr, setupErr) ==
    IF var = "v1"
    THEN IF setupErr # nil
         THEN [err |-> "Setup command output",
               execs |-> << Exec("catalog setup.exe", setupErr) >>]
         ELSE [err |-> nil,
               execs |-> << Exec("catalog setup.exe", setupErr) >>]
    ELSE IF useErr # nil
    THEN [err |-> "NET USE command output",
          execs |-> << Exec("net use /delete", deleteErr),
                       Exec("net use", useErr) >>]
    ELSE IF setupErr # nil
    THEN [err |-> "Setup command output",
          execs |-> << Exec("net use /delete", deleteErr),
                       Exec("net use", useErr),
                       Exec("catalog setup.exe", setupErr) >>]
    ELSE [err |-> nil,
          execs |-> << Exec("net use /delete", deleteErr),
                       Exec("net use", useErr),
                       Exec("catalog setup.exe", setupErr) >>]

\* outcomes of the two net use commands: v1 does not run them, and no
\* revision runs the setup after a failed mapping
NetUseErrors(var) == IF var = "v1" THEN {nil} ELSE CommandErrors

\* the commands of the catalog's own installer (DSA), which keeps the state
\* cookie and so may rewrite it; the product's Setup.exe and msiexec handle
\* the software, net use only maps a drive
InstallerCommands == {"dsa.exe /removeall", "catalog setup.exe"}

RanInstaller(execs) ==
    \E i \in 1..Len(execs) : execs[i].op \in InstallerCommands

\* the state cookie after the commands of one action have run
CookiesAfter(execs, c) == IF RanInstaller(execs) THEN CookieFiles ELSE {c}

(***************************************************************************)
(* main(): where control goes after each call                              *)
(***************************************************************************)
\* ExitWithSuccess, ExitWithError, ExitWithoutSuccess end in os.Exit
ExitWithSuccess == [pc |-> "done", exitCode |-> 0]
ExitWithError == [pc |-> "done", exitCode |-> 1]
ExitWithoutSuccess == [pc |-> "done", exitCode |-> 2]
Goto(label) == [pc |-> label, exitCode |-> -1]

\* AfterGetSoftwareStatus installing over a stale version
AfterGetSoftwareStatus_StaleInstalls(r) ==
    IF r.err # nil THEN ExitWithError
    ELSE IF ~r.installed \/ ~r.current THEN Goto("InstallSoftware")
    ELSE Goto("GetCatalogStatus")

\* after softInstalled, softCurrent, err := GetSoftwareStatus()
AfterGetSoftwareStatus(r) ==
    IF r.err # nil THEN ExitWithError
    ELSE IF ~r.installed THEN Goto("InstallSoftware")
    ELSE IF ~r.current THEN Goto("UninstallSoftware")
    ELSE Goto("GetCatalogStatus")

\* AfterSoftwareAction without the exit after a successful action
AfterSoftwareAction_FallThrough(e) ==
    IF e # nil THEN ExitWithError ELSE Goto("GetCatalogStatus")

\* after err = InstallSoftware() and after err = UninstallSoftware()
AfterSoftwareAction(e) ==
    IF e # nil THEN ExitWithError ELSE ExitWithoutSuccess

\* AfterGetCatalogStatusEnum without the success exit
AfterGetCatalogStatusEnum_NoSuccessExit(r) ==
    IF r.err # nil THEN ExitWithError
    ELSE IF r.catState = CATALOG_STATE_LOCAL THEN Goto("UninstallCatalog")
    ELSE Goto("InstallNetworkCatalog")

\* v1, after catState, err := GetCatalogStatus()
AfterGetCatalogStatusEnum(r) ==
    IF r.err # nil THEN ExitWithError
    ELSE IF r.catState = CATALOG_STATE_NETWORK THEN ExitWithSuccess
    ELSE IF r.catState = CATALOG_STATE_LOCAL THEN Goto("UninstallCatalog")
    ELSE Goto("InstallNetworkCatalog")

\* AfterGetCatalogStatusPair reporting a failed read as "incomplete"
AfterGetCatalogStatusPair_ErrIncomplete(r) ==
    IF r.err # nil THEN ExitWithoutSuccess
    ELSE IF r.onNetwork THEN ExitWithSuccess
    ELSE IF r.installed /\ ~r.onNetwork THEN Goto("UninstallCatalog")
    ELSE Goto("InstallNetworkCatalog")

\* AfterGetCatalogStatusPair without the error check
AfterGetCatalogStatusPair_IgnoreErr(r) ==
    IF r.onNetwork THEN ExitWithSuccess
    ELSE IF r.installed /\ ~r.onNetwork THEN Goto("UninstallCatalog")
    ELSE Goto("InstallNetworkCatalog")

\* v2 and v3, after catInstalled, catOnNetwork, err := GetCatalogStatus()
AfterGetCatalogStatusPair(r) ==
    IF r.err # nil THEN ExitWithError
    ELSE IF r.onNetwork THEN ExitWithSuccess
    ELSE IF r.installed /\ ~r.onNetwork THEN Goto("UninstallCatalog")
    ELSE Goto("InstallNetworkCatalog")

\* after err = UninstallCatalog(): v1 goes on to CleanCatalog, v2 and v3 to
\* the second GetCatalogStatus
AfterUninstallCatalog(var, e) ==
    IF e # nil THEN ExitWithError
    ELSE IF var = "v1" THEN Goto("CleanCatalog")
    ELSE Goto("RecheckAfterUninstall")

\* AfterRecheckAfterUninstall running the uninstaller again
AfterRecheckAfterUninstall_Retry(r) ==
    IF r.err # nil THEN ExitWithoutSuccess
    ELSE IF r.installed /\ ~r.onNetwork THEN Goto("UninstallCatalog")
    ELSE Goto("InstallNetworkCatalog")

\* v2 and v3, after the GetCatalogStatus that follows UninstallCatalog
AfterRecheckAfterUninstall(r) ==
    IF (r.err # nil) \/ (r.installed /\ ~r.onNetwork) THEN ExitWithoutSuccess
    ELSE Goto("InstallNetworkCatalog")

\* AfterInstallNetworkCatalog without the error check
AfterInstallNetworkCatalog_IgnoreErr(e) == Goto("RecheckAfterInstall")

\* after err = InstallNetworkCatalog()
AfterInstallNetworkCatalog(e) ==
    IF e # nil THEN ExitWithError ELSE Goto("RecheckAfterInstall")

\* AfterRecheckAfterInstallEnum accepting every state but LOCAL
AfterRecheckAfterInstallEnum_Lax(r) ==
    IF r.err = nil /\ r.catState # CATALOG_STATE_LOCAL THEN ExitWithSuccess
    ELSE ExitWithoutSuccess

\* v1, after the GetCatalogStatus that follows InstallNetworkCatalog
AfterRecheckAfterInstallEnum(r) ==
    IF r.err = nil /\ r.catState = CATALOG_STATE_NETWORK THEN ExitWithSuccess
    ELSE ExitWithoutSuccess

\* AfterRecheckAfterInstallPair trying the install again
AfterRecheckAfterInstallPair_Retry(r) ==
    IF r.err = nil /\ r.installed /\ r.onNetwork THEN ExitWithSuccess
    ELSE Goto("InstallNetworkCatalog")

\* v2 and v3, after the GetCatalogStatus that follows InstallNetworkCatalog
AfterRecheckAfterInstallPair(r) ==
    IF r.err = nil /\ r.installed /\ r.onNetwork THEN ExitWithSuccess
    ELSE ExitWithoutSuccess

(***************************************************************************)
(* The run                                                                 *)
(***************************************************************************)
\* v2's main starts at GetCatalogStatus, v1's and v3's at GetSoftwareStatus
Init ==
    /\ variant \in Variants
    /\ pc = IF variant = "v2" THEN "GetCatalogStatus" ELSE "GetSoftwareStatus"
    /\ exitCode = -1
    /\ cookie \in CookieFiles
    /\ softKey = NotRead
    /\ softInstalled = FALSE
    /\ softCurrent = FALSE
    /\ catState = CATALOG_STATE_MISSNG
    /\ catInstalled = FALSE
    /\ catOnNetwork = FALSE
    /\ err = nil
    /\ v = << >>
    /\ log = << >>

\* softInstalled, softCurrent, err := GetSoftwareStatus() and the branches
\* that follow it
MainGetSoftwareStatus ==
    /\ pc = "GetSoftwareStatus"
    /\ \E key \in SoftwareKeys :
        LET r == GetSoftwareStatus(key.openErr, key.valErr, key.value)
            next == AfterGetSoftwareStatus(r)
        IN  /\ softKey' = key
            /\ softInstalled' = r.installed
            /\ softCurrent' = r.current
            /\ err' = r.err
            /\ log' = Append(log, Classify("GetSoftwareStatus", r.err))
            /\ pc' = next.pc
            /\ exitCode' = next.exitCode
    /\ UNCHANGED << variant, cookie, catState, catInstalled, catOnNetwork, v >>

\* err = InstallSoftware() and the exit that follows it
MainInstallSoftware ==
    /\ pc = "InstallSoftware"
    /\ \E cmdErr \in CommandErrors :
        LET r == InstallSoftware(cmdErr)
            next == AfterSoftwareAction(r.err)
        IN  /\ err' = r.err
            /\ log' = Append(log, Action("InstallSoftware", r.err)) \o r.execs
            /\ pc' = next.pc
            /\ exitCode' = next.exitCode
            /\ cookie' \in CookiesAfter(r.execs, cookie)
    /\ UNCHANGED << variant, softKey, softInstalled, softCurrent, catState,
                    catInstalled, catOnNetwork, v >>

\* err = UninstallSoftware() and the exit that follows it
MainUninstallSoftware ==
    /\ pc = "UninstallSoftware"
    /\ \E cmdErr \in CommandErrors :
        LET r == UninstallSoftware(cmdErr)
            next == AfterSoftwareAction(r.err)
        IN  /\ err' = r.err
            /\ log' = Append(log, Action("UninstallSoftware", r.err)) \o r.execs
            /\ pc' = next.pc
            /\ exitCode' = next.exitCode
            /\ cookie' \in CookiesAfter(r.execs, cookie)
    /\ UNCHANGED << variant, softKey, softInstalled, softCurrent, catState,
                    catInstalled, catOnNetwork, v >>

\* one GetCatalogStatus() call of v1 with the assignment of its results
CallGetCatalogStatusEnum(next) ==
    /\ catState' = GetCatalogStatusEnum(cookie).catState
    /\ err' = GetCatalogStatusEnum(cookie).err
    /\ log' = Append(log, Classify("GetCatalogStatus",
                                   GetCatalogStatusEnum(cookie).err))
    /\ pc' = next.pc
    /\ exitCode' = next.exitCode
    /\ UNCHANGED << variant, cookie, softKey, softInstalled, softCurrent,
                    catInstalled, catOnNetwork, v >>

\* one GetCatalogStatus() call of v2, v3 with the assignment of its results
CallGetCatalogStatusPair(next) ==
    /\ catInstalled' = GetCatalogStatusPair(cookie).installed
    /\ catOnNetwork' = GetCatalogStatusPair(cookie).onNetwork
    /\ err' = GetCatalogStatusPair(cookie).err
    /\ log' = Append(log, Classify("GetCatalogStatus",
                                   GetCatalogStatusPair(cookie).err))
    /\ pc' = next.pc
    /\ exitCode' = next.exitCode
    /\ UNCHANGED << variant, cookie, softKey, softInstalled, softCurrent,
                    catState, v >>

\* the first GetCatalogStatus() of main and the branches that follow it
MainGetCatalogStatus ==
    /\ pc = "GetCatalogStatus"
    /\ IF variant = "v1"
       THEN CallGetCatalogStatusEnum(
                AfterGetCatalogStatusEnum(GetCatalogStatusEnum(cookie)))
       ELSE CallGetCatalogStatusPair(
                AfterGetCatalogStatusPair(GetCatalogStatusPair(cookie)))

\* err = UninstallCatalog() and the branch that follows it; each input is
\* drawn only where UninstallCatalog gets as far as reading it
MainUninstallCatalog ==
    /\ pc = "UninstallCatalog"
    /\ \E openErr \in OpenKeyErrors :
      \E valErr \in IF openErr = nil THEN GetStringValueErrors ELSE {nil} :
      \E value \in IF openErr = nil /\ valErr = nil THEN UninstallStrings
                    ELSE {<< >>} :
      \E cmdErr \in IF /\ openErr = nil
                        /\ valErr = nil
                        /\ UninstallStringRecognized(variant, value)
                     THEN CommandErrors ELSE {nil} :
        LET r == UninstallCatalog(variant, openErr, valErr, value, cmdErr)
            next == AfterUninstallCatalog(variant, r.err)
        IN  /\ err' = r.err
            /\ v' = r.v
            /\ log' = Append(log, Action("UninstallCatalog", r.err)) \o r.execs
            /\ pc' = next.pc
            /\ exitCode' = next.exitCode
            /\ cookie' \in CookiesAfter(r.execs, cookie)
    /\ UNCHANGED << variant, softKey, softInstalled, softCurrent, catState,
                    catInstalled, catOnNetwork >>

\* v1: CleanCatalog(), os.RemoveAll of the DSA directory; its error is
\* dropped, and a failed removal may or may not have removed the cookie
MainCleanCatalog ==
    /\ pc = "CleanCatalog"
    /\ \E removeErr \in {nil, "unlinkat: access denied"} :
        /\ cookie' \in IF removeErr = nil THEN {NoContent("absent")}
                       ELSE {NoContent("absent"), cookie}
        /\ log' = Append(log, Clean("CleanCatalog", removeErr))
    /\ pc' = "InstallNetworkCatalog"
    /\ UNCHANGED << variant, exitCode, softKey, softInstalled, softCurrent,
                    catState,
                    catInstalled, catOnNetwork, err, v >>

\* v2, v3: the GetCatalogStatus() after UninstallCatalog and its branch
MainRecheckAfterUninstall ==
    /\ pc = "RecheckAfterUninstall"
    /\ CallGetCatalogStatusPair(
           AfterRecheckAfterUninstall(GetCatalogStatusPair(cookie)))

\* err = InstallNetworkCatalog() and the branch that follows it
MainInstallNetworkCatalog ==
    /\ pc = "InstallNetworkCatalog"
    /\ \E deleteErr \in NetUseErrors(variant),
          useErr \in NetUseErrors(variant) :
      \E setupErr \in IF useErr = nil THEN CommandErrors ELSE {nil} :
        LET r == InstallNetworkCatalog(variant, deleteErr, useErr, setupErr)
            next == AfterInstallNetworkCatalog(r.err)
        IN  /\ err' = r.err
            /\ log' = Append(log, Action("InstallNetworkCatalog", r.err))
                          \o r.execs
            /\ pc' = next.pc
            /\ exitCode' = next.exitCode
            /\ cookie' \in CookiesAfter(r.execs, cookie)
    /\ UNCHANGED << variant, softKey, softInstalled, softCurrent, catState,
                    catInstalled, catOnNetwork, v >>

\* the GetCatalogStatus() after InstallNetworkCatalog and the exit
MainRecheckAfterInstall ==
    /\ pc = "RecheckAfterInstall"
    /\ IF variant = "v1"
       THEN CallGetCatalogStatusEnum(
                AfterRecheckAfterInstallEnum(GetCatalogStatusEnum(cookie)))
       ELSE CallGetCatalogStatusPair(
                AfterRecheckAfterInstallPair(GetCatalogStatusPair(cookie)))

Next ==
    \/ MainGetSoftwareStatus
    \/ MainInstallSoftware
    \/ MainUninstallSoftware
    \/ MainGetCatalogStatus
    \/ MainUninstallCatalog
    \/ MainCleanCatalog
    \/ MainRecheckAfterUninstall
    \/ MainInstallNetworkCatalog
    \/ MainRecheckAfterInstall

Spec == Init /\ [][Next]_vars

\* every call main makes returns: registry reads, file reads and commands
\* are blocking calls that the run waits for
FairSpec == Spec /\ WF_vars(Next)

TypeOK ==
    /\ variant \in Variants
    /\ pc \in {"GetSoftwareStatus", "InstallSoftware", "UninstallSoftware",
               "GetCatalogStatus", "UninstallCatalog", "CleanCatalog",
               "RecheckAfterUninstall", "InstallNetworkCatalog",
               "RecheckAfterInstall", "done"}
    /\ exitCode \in {-1, 0, 1, 2}
    /\ cookie \in CookieFiles
    /\ (pc = "done") <=> (exitCode # -1)

(***************************************************************************)
(* Reading the history                                                     *)
(***************************************************************************)
RemediationActions ==
    {"InstallSoftware", "UninstallSoftware", "UninstallCatalog",
     "InstallNetworkCatalog"}
CatalogActions == {"UninstallCatalog", "InstallNetworkCatalog"}

Positions(kind, ops) ==
    { i \in 1..Len(log) : log[i].kind = kind /\ log[i].op \in ops }
Count(kind, ops) == Cardinality(Positions(kind, ops))

CatalogClassifications == Positions("classify", {"GetCatalogStatus"})
SoftwareClassifications == Positions("classify", {"GetSoftwareStatus"})
ActionPositions == Positions("action", RemediationActions)
ExecPositions == { i \in 1..Len(log) : log[i].kind = "exec" }

Terminated == pc = "done"

(***************************************************************************)
(* C1: the catalog uninstaller dsa.exe /removeall is launched only if the  *)
(* UninstallString read from the registry equals the expected command      *)
(* line character for character; for any other value no process is        *)
(* launched and UninstallCatalog returns an error.                         *)
(* Fails in v1, which compares with strings.EqualFold.                     *)
(***************************************************************************)
C1_UninstallOnlyOnExactMatch ==
    \A i \in Positions("action", {"UninstallCatalog"}) :
        \/ v = ExpectedUninstallString
        \/ /\ log[i].failed
           /\ Positions("exec", {"dsa.exe /removeall"}) = {}

(***************************************************************************)
(* C2: a run that ends with exit code 0 ends on a state cookie in which    *)
(* the baseline pick (CAP, DMO) is Selected and the variant's network      *)
(* signal is present.                                                      *)
(* Fails: v1 reports NETWORK only when the baseline pick is not selected,  *)
(* v2 and v3 exit with success on the flag alone at the first check.       *)
(***************************************************************************)
NetworkSignal(var, c) ==
    IF var = "v1"
    THEN EqualFold(c.LastDiscLocation, ExpectedLastDiscLocation)
    ELSE c.UsingNetwork

C2_SuccessOnlyOnSelectedBaseline ==
    (Terminated /\ exitCode = 0) =>
        /\ cookie.file = "parsed"
        /\ BaselinePickSelected(cookie.GranulePicks)
        /\ NetworkSignal(variant, cookie)

(***************************************************************************)
(* C3: in one run each remediation action is invoked at most once, the     *)
(* software is classified at most once, the catalog at most three times    *)
(* and at most once more than there were catalog actions, and no two       *)
(* catalog classifications follow the same action.                         *)
(***************************************************************************)
C3_AtMostOncePerRun ==
    /\ \A a \in RemediationActions : Count("action", {a}) <= 1
    /\ Cardinality(SoftwareClassifications) <= 1
    /\ Cardinality(CatalogClassifications) <= 3
    /\ Cardinality(CatalogClassifications)
           <= 1 + Count("action", CatalogActions)
    /\ \A i, j \in CatalogClassifications :
           i < j => \E k \in ActionPositions : i < k /\ k < j

\* a run of v2 or v3 that classified the catalog three times
C3_Witness ==
    /\ Terminated
    /\ Cardinality(CatalogClassifications) = 3
    /\ Count("action", CatalogActions) = 2

(***************************************************************************)
(* C4 as stated: whenever a call of GetSoftwareStatus or GetCatalogStatus  *)
(* returns an error, re-classifications included, the run ends with exit   *)
(* code 1 and no remediation action follows the error.                     *)
(* Fails: an error of a re-classification ends the run with exit code 2.   *)
(***************************************************************************)
FailedClassifications ==
    { i \in 1..Len(log) : log[i].kind = "classify" /\ log[i].failed }

C4_ClassificationErrorExitsOne ==
    \A i \in FailedClassifications :
        /\ Terminated
        /\ exitCode = 1
        /\ \A k \in ActionPositions : k < i

(***************************************************************************)
(* C4 amended: an error of the first GetSoftwareStatus or the first        *)
(* GetCatalogStatus call (no remediation action invoked before it) ends    *)
(* the run with exit code 1; an error of a re-classification made after    *)
(* UninstallCatalog or InstallNetworkCatalog ends it with exit code 2; in  *)
(* both cases nothing is called after the failed classification.           *)
(***************************************************************************)
C4_ClassificationErrorEndsRun ==
    \A i \in FailedClassifications :
        /\ Terminated
        /\ i = Len(log)
        /\ exitCode = IF \E k \in ActionPositions : k < i THEN 2 ELSE 1

\* a re-classification failed and the run ended with exit code 2
C4_Witness ==
    /\ Terminated
    /\ exitCode = 2
    /\ Len(log) \in FailedClassifications
    /\ Count("action", CatalogActions) >= 1

(***************************************************************************)
(* C5: when a command launched by a remediation action fails, the run ends *)
(* with exit code 1, no command is launched after it and no command is     *)
(* launched twice; only a failed `net use A: /delete` is ignored: the      *)
(* mapping runs after it, and the setup after a successful mapping.        *)
(***************************************************************************)
C5_CommandFailureIsFatal ==
    /\ \A i \in ExecPositions :
        (log[i].failed /\ log[i].op # "net use /delete") =>
            /\ i = Len(log)
            /\ Terminated
            /\ exitCode = 1
    /\ \A i \in Positions("exec", {"net use /delete"}) :
        /\ Len(log) >= i + 1
        /\ log[i + 1] \in {Exec("net use", nil), Exec("net use", "failed")}
        /\ ~log[i + 1].failed =>
              /\ Len(log) >= i + 2
              /\ log[i + 2].kind = "exec"
              /\ log[i + 2].op = "catalog setup.exe"
    /\ \A i, j \in ExecPositions : log[i].op = log[j].op => i = j

\* the unmap step failed, the mapping ran and succeeded, the setup failed
C5_Witness ==
    /\ Terminated
    /\ exitCode = 1
    /\ \E i \in Positions("exec", {"net use /delete"}) :
        /\ log[i].failed
        /\ Len(log) = i + 2
        /\ ~log[i + 1].failed
        /\ log[i + 2].failed

(***************************************************************************)
(* C6: no catalog classification and no catalog action happens in a run    *)
(* unless the software status was read first and was installed and         *)
(* current.                                                                *)
(* Fails in v2, whose main starts with GetCatalogStatus.                   *)
(***************************************************************************)
C6_CatalogPhaseAfterSoftwareCurrent ==
    (CatalogClassifications \cup Positions("action", CatalogActions) # {}) =>
        /\ log[1] = Classify("GetSoftwareStatus", nil)
        /\ softInstalled
        /\ softCurrent

(***************************************************************************)
(* C7: after a first classification of LocalOnly the driver invokes        *)
(* UninstallCatalog; when that returns without error the next call is one  *)
(* GetCatalogStatus; if it fails or still reports installed and not on the *)
(* network the run ends with exit code 2 without InstallNetworkCatalog,    *)
(* otherwise InstallNetworkCatalog is next.                                *)
(* Fails in v1, which calls CleanCatalog and then InstallNetworkCatalog    *)
(* without classifying again.                                              *)
(***************************************************************************)
LocalOnlyReported ==
    /\ err = nil
    /\ IF variant = "v1" THEN catState = CATALOG_STATE_LOCAL
       ELSE catInstalled /\ ~catOnNetwork

C7_RecheckAfterUninstallCatalog ==
    /\ (Len(log) \in CatalogClassifications
        /\ Cardinality(CatalogClassifications) = 1
        /\ LocalOnlyReported) => pc = "UninstallCatalog"
    /\ \A j \in Positions("action", {"UninstallCatalog"}) :
        ~log[j].failed =>
            /\ Len(log) >= j + 2 =>
                  /\ log[j + 2].kind = "classify"
                  /\ log[j + 2].op = "GetCatalogStatus"
            /\ Len(log) = j + 2 =>
                  IF err # nil \/ LocalOnlyReported
                  THEN Terminated /\ exitCode = 2
                  ELSE pc = "InstallNetworkCatalog"
    /\ \A i \in Positions("action", {"InstallNetworkCatalog"}) :
        \A j \in Positions("action", {"UninstallCatalog"}) : j < i

(***************************************************************************)
(* C8: a catalog first classified as Missing, or found not local by the    *)
(* re-classification after UninstallCatalog (v1: after CleanCatalog),      *)
(* leads to InstallNetworkCatalog; when that returns without error the     *)
(* catalog is classified once more and the run ends there, with exit code  *)
(* 0 if and only if that classification reports the Network state without  *)
(* error, and with exit code 2 otherwise.                                  *)
(* Network state: CATALOG_STATE_NETWORK in v1, installed and onNetwork in  *)
(* v2 and v3.                                                              *)
(***************************************************************************)
MissingReported ==
    /\ err = nil
    /\ IF variant = "v1" THEN catState = CATALOG_STATE_MISSNG
       ELSE ~catInstalled /\ ~catOnNetwork

NetworkReported ==
    /\ err = nil
    /\ IF variant = "v1" THEN catState = CATALOG_STATE_NETWORK
       ELSE catInstalled /\ catOnNetwork

C8_InstallNetworkThenOneRecheck ==
    /\ (Len(log) \in CatalogClassifications
        /\ Cardinality(CatalogClassifications) = 1
        /\ MissingReported) => pc = "InstallNetworkCatalog"
    /\ (Len(log) \in CatalogClassifications
        /\ Cardinality(CatalogClassifications) = 2
        /\ Count("action", {"UninstallCatalog"}) = 1
        /\ Count("action", {"InstallNetworkCatalog"}) = 0
        /\ err = nil /\ ~LocalOnlyReported) => pc = "InstallNetworkCatalog"
    /\ (Len(log) >= 1 /\ log[Len(log)].kind = "clean")
           => pc = "InstallNetworkCatalog"
    /\ \A i \in Positions("action", {"InstallNetworkCatalog"}) :
        ~log[i].failed =>
            LET after == { k \in 1..Len(log) :
                             k > i /\ log[k].kind # "exec" }
            IN  /\ after = {} => pc = "RecheckAfterInstall"
                /\ after # {} =>
                      /\ after = {Len(log)}
                      /\ Len(log) \in CatalogClassifications
                      /\ Terminated
                      /\ exitCode \in {0, 2}
                      /\ exitCode = 0 <=> NetworkReported

\* the re-classification after InstallNetworkCatalog reported Network
C8_Witness ==
    /\ Terminated
    /\ exitCode = 0
    /\ Count("action", {"InstallNetworkCatalog"}) = 1
    /\ Len(log) \in CatalogClassifications
    /\ NetworkReported

(***************************************************************************)
(* C9: when the first catalog classification reports the catalog on the    *)
(* network (CATALOG_STATE_NETWORK in v1, onNetwork in v2 and v3), the run  *)
(* ends with exit code 0, having invoked no remediation action, launched   *)
(* no command and classified the catalog once.                             *)
(***************************************************************************)
OnNetworkReported ==
    /\ err = nil
    /\ IF variant = "v1" THEN catState = CATALOG_STATE_NETWORK
       ELSE catOnNetwork

C9_OnNetworkIsSuccess ==
    (/\ Len(log) \in CatalogClassifications
     /\ Cardinality(CatalogClassifications) = 1
     /\ OnNetworkReported) =>
        /\ Terminated
        /\ exitCode = 0
        /\ ActionPositions = {}
        /\ ExecPositions = {}
        /\ \A i \in 1..Len(log) : log[i].kind = "classify"

\* software current, first catalog classification on the network
C9_Witness ==
    /\ Terminated
    /\ exitCode = 0
    /\ softInstalled /\ softCurrent
    /\ Cardinality(CatalogClassifications) = 1
    /\ OnNetworkReported

(***************************************************************************)
(* C10: in v1 and v3, when GetSoftwareStatus finds the product key absent  *)
(* (not installed, no error), InstallSoftware is the only remediation      *)
(* action of the run and is invoked once, the catalog is never classified, *)
(* and the run ends with exit code 2 if InstallSoftware returned without   *)
(* error, whatever the state cookie holds.                                 *)
(***************************************************************************)
ProductKeyAbsent ==
    /\ Len(log) >= 1
    /\ log[1] = Classify("GetSoftwareStatus", nil)
    /\ ~softInstalled

C10_AbsentKeyInstallsSoftwareOnly ==
    ProductKeyAbsent =>
        /\ pc \in {"InstallSoftware", "done"}
        /\ CatalogClassifications = {}
        /\ ActionPositions \subseteq Positions("action", {"InstallSoftware"})
        /\ Count("action", {"InstallSoftware"}) =
               IF Terminated THEN 1 ELSE 0
        /\ Terminated =>
              exitCode = IF log[2].failed THEN 1 ELSE 2

\* key absent, InstallSoftware succeeded, cookie shows a local catalog
C10_Witness ==
    /\ ProductKeyAbsent
    /\ Terminated
    /\ exitCode = 2
    /\ log[2] = Action("InstallSoftware", nil)
    /\ cookie.file = "parsed"
    /\ BaselinePickSelected(cookie.GranulePicks)

(***************************************************************************)
(* C11: in v1 and v3, when GetSoftwareStatus finds the product key with a  *)
(* DisplayVersion other than the expected one (installed, not current, no  *)
(* error), UninstallSoftware is the only remediation action of the run and *)
(* is invoked once, InstallSoftware is never invoked, the catalog is never *)
(* classified, and the run ends with exit code 2 if UninstallSoftware      *)
(* returned without error.                                                 *)
(***************************************************************************)
ProductKeyStale ==
    /\ Len(log) >= 1
    /\ log[1] = Classify("GetSoftwareStatus", nil)
    /\ softKey.openErr = nil
    /\ softKey.valErr = nil
    /\ softKey.value # "13.00.13037"

C11_StaleVersionUninstallsSoftwareOnly ==
    ProductKeyStale =>
        /\ pc \in {"UninstallSoftware", "done"}
        /\ CatalogClassifications = {}
        /\ ActionPositions \subseteq Positions("action", {"UninstallSoftware"})
        /\ Count("action", {"UninstallSoftware"}) =
               IF Terminated THEN 1 ELSE 0
        /\ Terminated =>
              exitCode = IF log[2].failed THEN 1 ELSE 2

\* stale version, UninstallSoftware succeeded, run ended with exit code 2
C11_Witness ==
    /\ ProductKeyStale
    /\ Terminated
    /\ exitCode = 2
    /\ log[2] = Action("UninstallSoftware", nil)

(***************************************************************************)
(* C12: no step of the driver writes, truncates or deletes the state       *)
(* cookie: the cookie changes only in a step that launched an installer or *)
(* uninstaller command.                                                    *)
(* Fails in v1, whose main calls CleanCatalog (os.RemoveAll of the DSA     *)
(* directory) after UninstallCatalog.                                      *)
(***************************************************************************)
C12_CookieChangedOnlyByInstallers ==
    [][cookie' # cookie =>
          \E i \in (Len(log) + 1)..Len(log') :
              /\ log'[i].kind = "exec"
              /\ log'[i].op \in InstallerCommands]_vars

(***************************************************************************)
(* C13: in v1 (the path-matching GetCatalogStatus), a well-formed cookie   *)
(* with the baseline pick Selected and a LastDiscLocation equal to the     *)
(* expected network path up to letter case is classified                   *)
(* CATALOG_STATE_NETWORK with no error.                                    *)
(* Fails: v1 returns CATALOG_STATE_LOCAL as soon as the baseline pick is   *)
(* selected and looks at LastDiscLocation only when it is not.             *)
(***************************************************************************)
\* the state just after a GetCatalogStatus call: the cookie is as it was
\* read and main's variables hold the results
JustClassifiedCatalog == Len(log) \in CatalogClassifications

HasSelectedBaselinePick(c) ==
    \E j \in 1..Len(c.GranulePicks) :
        c.GranulePicks[j] = [PlatformType |-> "CAP", MfgCode |-> "DMO",
                             SelectionState |-> "Selected"]

C13_SelectedBaselineOnNetworkPathIsNetwork ==
    (/\ variant = "v1"
     /\ JustClassifiedCatalog
     /\ cookie.file = "parsed"
     /\ HasSelectedBaselinePick(cookie)
     /\ EqualFold(cookie.LastDiscLocation, ExpectedLastDiscLocation)) =>
        /\ catState = CATALOG_STATE_NETWORK
        /\ err = nil

(***************************************************************************)
(* C14: for a well-formed cookie without a pick (CAP, DMO, Selected),      *)
(* GetCatalogStatus never reports a local install: not CATALOG_STATE_LOCAL *)
(* in v1, installed = false in v2 and v3, whatever the flag, the location  *)
(* and the other picks are.                                                *)
(***************************************************************************)
C14_NoBaselinePickIsNotLocal ==
    (/\ JustClassifiedCatalog
     /\ cookie.file = "parsed"
     /\ ~HasSelectedBaselinePick(cookie)) =>
        /\ err = nil
        /\ IF variant = "v1" THEN catState # CATALOG_STATE_LOCAL
           ELSE ~catInstalled

\* a cookie with two non-baseline picks, the flag set and the network path
C14_Witness ==
    /\ JustClassifiedCatalog
    /\ cookie.file = "parsed"
    /\ ~HasSelectedBaselinePick(cookie)
    /\ Len(cookie.GranulePicks) = 2
    /\ cookie.UsingNetwork
    /\ cookie.LastDiscLocation = ExpectedLastDiscLocation

(***************************************************************************)
(* C15: in every revision, when the state cookie file does not exist,      *)
(* GetCatalogStatus returns the Missing value with a nil error, and a      *)
(* first classification then leads to InstallNetworkCatalog.               *)
(* Fails in v2 and v3: os.Open returns a *PathError, which is never equal  *)
(* to os.ErrNotExist, so the missing file is reported as an error.         *)
(***************************************************************************)
FirstCatalogClassification ==
    JustClassifiedCatalog /\ Cardinality(CatalogClassifications) = 1

C15_AbsentCookieIsMissing ==
    (JustClassifiedCatalog /\ cookie.file = "absent") =>
        /\ MissingReported
        /\ FirstCatalogClassification => pc = "InstallNetworkCatalog"

(***************************************************************************)
(* C16: in every revision, when the state cookie file exists but cannot be *)
(* opened, GetCatalogStatus returns an error and never the Missing value,  *)
(* the run ends there, and it ends with exit code 1 when this was the      *)
(* first classification.                                                   *)
(* Fails in v1, which returns CATALOG_STATE_MISSNG with a nil error for    *)
(* every failure of os.Open and goes on to InstallNetworkCatalog.          *)
(***************************************************************************)
C16_UnreadableCookieIsError ==
    (JustClassifiedCatalog /\ cookie.file = "denied") =>
        /\ err # nil
        /\ ~MissingReported
        /\ Terminated
        /\ FirstCatalogClassification => exitCode = 1

(***************************************************************************)
(* C17: when the state cookie file exists but cannot be decoded,           *)
(* GetCatalogStatus returns a non-nil error (with CATALOG_STATE_INVALID in *)
(* v1) and never Missing with a nil error; on the first classification the *)
(* run ends with exit code 1 and no remediation action was invoked.        *)
(***************************************************************************)
C17_MalformedCookieIsError ==
    (JustClassifiedCatalog /\ cookie.file = "malformed") =>
        /\ err # nil
        /\ variant = "v1" => catState = CATALOG_STATE_INVALID
        /\ ~MissingReported
        /\ FirstCatalogClassification =>
              /\ Terminated
              /\ exitCode = 1
              /\ ActionPositions = {}
              /\ ExecPositions = {}

\* a first classification of a malformed cookie
C17_Witness ==
    /\ FirstCatalogClassification
    /\ cookie.file = "malformed"
    /\ Terminated
    /\ exitCode = 1

(***************************************************************************)
(* C18: GetSoftwareStatus returns (false, false, nil) when the product key *)
(* does not exist, (true, true, nil) when DisplayVersion is exactly        *)
(* 13.00.13037, (true, false, nil) for every other readable                *)
(* DisplayVersion, and an error when the key cannot be opened for another  *)
(* reason or DisplayVersion cannot be read.                                *)
(***************************************************************************)
SoftwareStatusRead ==
    /\ Len(log) >= 1
    /\ log[1].kind = "classify"
    /\ log[1].op = "GetSoftwareStatus"

C18_SoftwareStatusOfKey ==
    SoftwareStatusRead =>
        IF softKey.openErr = "ERROR_FILE_NOT_FOUND"
        THEN ~log[1].failed /\ ~softInstalled /\ ~softCurrent
        ELSE IF softKey.openErr # nil \/ softKey.valErr # nil
        THEN log[1].failed
        ELSE IF softKey.value = "13.00.13037"
        THEN ~log[1].failed /\ softInstalled /\ softCurrent
        ELSE ~log[1].failed /\ softInstalled /\ ~softCurrent

\* a DisplayVersion that differs from the expected one by a trailing blank
C18_Witness ==
    /\ SoftwareStatusRead
    /\ softKey.openErr = nil
    /\ softKey.valErr = nil
    /\ softKey.value = "13.00.13037 "
    /\ softInstalled
    /\ ~softCurrent

(***************************************************************************)
(* C19: provided every read and every command returns, every run reaches a *)
(* terminal outcome with exit code 0, 1 or 2; nothing happens after it,    *)
(* and main only moves forward: no position is entered twice.              *)
(***************************************************************************)
\* the order of main's positions in the source
Rank(p) ==
    CASE p = "GetSoftwareStatus" -> 1
      [] p \in {"InstallSoftware", "UninstallSoftware"} -> 2
      [] p = "GetCatalogStatus" -> 3
      [] p = "UninstallCatalog" -> 4
      [] p \in {"CleanCatalog", "RecheckAfterUninstall"} -> 5
      [] p = "InstallNetworkCatalog" -> 6
      [] p = "RecheckAfterInstall" -> 7
      [] p = "done" -> 8

C19_RunTerminatesOnce ==
    /\ <>Terminated
    /\ [](Terminated <=> exitCode \in {0, 1, 2})
    /\ [][~Terminated /\ Rank(pc') > Rank(pc)]_vars

\* the longest run: three catalog classifications, then an outcome
C19_Witness ==
    /\ Terminated
    /\ exitCode \in {0, 2}
    /\ Cardinality(CatalogClassifications) = 3

(***************************************************************************)
(* C20: a run ends with exit code 2 only after at least one remediation    *)
(* action was invoked and returned without error.                          *)
(***************************************************************************)
C20_IncompleteOnlyAfterSuccessfulAction ==
    (Terminated /\ exitCode = 2) =>
        \E i \in ActionPositions : ~log[i].failed

\* exit code 2 after InstallNetworkCatalog as the only action of the run
C20_Witness ==
    /\ Terminated
    /\ exitCode = 2
    /\ ActionPositions = Positions("action", {"InstallNetworkCatalog"})
    /\ \E i \in ActionPositions : ~log[i].failed

====
